---- MODULE Spec2Model ----
(***************************************************************************)
(* Medical-insurance analysis pipeline: the data loader / cleaner          *)
(* (src/data_loader.py) and the analyzer (src/data_analyzer.py).           *)
(*                                                                         *)
(* Numbers are fixed-point integers in quarter units (4 * value), so that  *)
(* the median of two half-integral values is exact.  A DataFrame cell is   *)
(* a record [k, v, s]: a number (k = "num", v in quarter units), a Python  *)
(* string (k = "str", s) or NaN (k = "nan").  DataFrame objects live in    *)
(* `heap`; the loader's fields hold references to them, as in Python.      *)
(***************************************************************************)
EXTENDS Integers, Sequences, FiniteSets, TLC

VARIABLES
    url,          \* loader.url is set (TRUE) or None (FALSE)
    local_path,   \* loader.local_path: "None" or a path name
    disk,         \* TRUE when a readable CSV file exists at the path
    remote,       \* the CSV text of the data set, known once it has been read
    df_raw,       \* loader.df_raw: "None" or a reference into heap
    df_clean,     \* loader.df_clean: "None" or a reference into heap
    heap,         \* reference -> DataFrame (or NoFrame)
    ret,          \* what the last call returned, raised and reported
    an_df_clean,      \* analyzer.df_clean: a reference ("None": no analyzer)
    an_df_labeled,    \* analyzer.df_labeled: a reference
    analysis_results, \* analyzer.analysis_results, the bundle
    p_below_alpha,    \* per test, whether scipy's p-value is below 0.05
    writes,           \* the bundle keys the last call assigned, in order
    rerun,            \* the last two calls were both run_full_analysis
    pc,               \* main(): the step it is at ("idle": main is not running)
    stages,           \* main(): the stages it has executed, in order
    main_ret          \* main(): "True" or "False" once it has returned

loaderVars == <<url, local_path, disk, remote, df_raw, df_clean>>

analyzerVars == <<an_df_clean, an_df_labeled, analysis_results, p_below_alpha,
                  writes, rerun>>

mainVars == <<pc, stages, main_ret>>

vars == <<url, local_path, disk, remote, df_raw, df_clean, heap, ret,
          an_df_clean, an_df_labeled, analysis_results, p_below_alpha,
          writes, rerun, pc, stages, main_ret>>

-----------------------------------------------------------------------------
(* Bounds *)

MaxRows == 3

MaxHeaderRows == 1

\* the largest number of rows of a table given to the analyzer
MaxAnalyzerRows == 3

-----------------------------------------------------------------------------
(* Cells and numbers *)

Num(x) == [k |-> "num", v |-> x, s |-> ""]
Str(t) == [k |-> "str", v |-> 0, s |-> t]
NaN == [k |-> "nan", v |-> 0, s |-> ""]

Whole(n) == 4 * n

IsNaN(c) == c.k = "nan"

\* int(x) on a float: truncation toward zero.
Trunc(x) == IF x >= 0 THEN Whole(x \div 4) ELSE -Whole((-x) \div 4)

\* The numeric literals that occur in the modelled CSV text, in quarter units.
NumLit ==
    ("0" :> 0) @@ ("1" :> 4) @@ ("2" :> 8) @@ ("3" :> 12) @@ ("4" :> 16) @@
    ("7" :> 28) @@ ("20" :> 80) @@ ("31" :> 124) @@ ("24.5" :> 98) @@
    ("22.5" :> 90) @@ ("100" :> 400) @@ ("250" :> 1000)

\* float(s) succeeds
IsNumText(t) == t \in DOMAIN NumLit

\* int(s) succeeds: digits only (no literal of the model is written "x.0")
IsIntText(t) == IsNumText(t) /\ NumLit[t] % 4 = 0

\* Lexicographic (code point) order of the strings of the model.
TokenOrder ==
    <<"0", "1", "100", "2", "20", "22.5", "24.5", "250", "3", "31", "4", "7",
      "?", "abc">>

StrRank(t) == CHOOSE i \in 1..Len(TokenOrder) : TokenOrder[i] = t

CellKey(c) == IF c.k = "num" THEN c.v ELSE StrRank(c.s)

-----------------------------------------------------------------------------
(* DataFrames, column by column as pandas holds them:                     *)
(* [columns |-> sequence of names, n |-> number of rows,                   *)
(*  data |-> function from the column names to sequences of n cells].      *)

ColumnNames == <<"age", "sex", "bmi", "children", "smoker", "region", "charges">>

NoFrame == [columns |-> <<>>, n |-> 0, data |-> <<>>, none |-> TRUE]

Frame(cols, len, cells) == [columns |-> cols, n |-> len, data |-> cells, none |-> FALSE]

NRows(t) == t.n

NameSet(cols) == {cols[j] : j \in 1..Len(cols)}

HasColumn(t, c) == c \in NameSet(t.columns)

Col(t, c) == t.data[c]

\* df[c] = values, for an existing column c
SetCol(t, c, vals) == [t EXCEPT !.data[c] = vals]

\* df[c] = values, for a new column c (appended on the right)
AddCol(t, c, vals) ==
    [t EXCEPT !.columns = Append(t.columns, c), !.data = t.data @@ (c :> vals)]

-----------------------------------------------------------------------------
(* The pandas operations the loader uses, each as what it computes.        *)

RECURSIVE SortNums(_)
\* ascending sort of a sequence of numbers
SortNums(q) ==
    IF q = <<>> THEN <<>>
    ELSE LET x == Head(q)
             r == SortNums(Tail(q))
             n == Cardinality({j \in 1..Len(r) : r[j] <= x})
         IN  SubSeq(r, 1, n) \o <<x>> \o SubSeq(r, n + 1, Len(r))

\* the cells of a column that are not NaN, in row order
RECURSIVE DropNa(_)
DropNa(q) ==
    IF q = <<>> THEN <<>>
    ELSE IF IsNaN(Head(q)) THEN DropNa(Tail(q))
         ELSE <<Head(q)>> \o DropNa(Tail(q))

\* pd.read_csv type inference for one column of text: a column whose
\* non-empty fields all parse as numbers is numeric, any other column keeps
\* its fields as strings; an empty field is NaN either way.
ReadColumn(texts) ==
    LET numeric == \A i \in 1..Len(texts) : texts[i] = "" \/ IsNumText(texts[i])
    IN  [i \in 1..Len(texts) |->
            IF texts[i] = "" THEN NaN
            ELSE IF numeric THEN Num(NumLit[texts[i]])
            ELSE Str(texts[i])]

\* pd.read_csv(path, names=column_names) / pd.read_csv(path)
ReadCsv(f) ==
    Frame(ColumnNames, Len(f.rows),
          [c \in NameSet(ColumnNames) |->
              ReadColumn([r \in 1..Len(f.rows) |-> f.rows[r][c]])])

\* pd.to_numeric(col, errors='coerce'): what does not parse becomes NaN
ToNumericCoerce(col) ==
    [i \in 1..Len(col) |->
        IF col[i].k = "str"
        THEN IF IsNumText(col[i].s) THEN Num(NumLit[col[i].s]) ELSE NaN
        ELSE col[i]]

\* pd.to_numeric(col) raises ValueError on a string that does not parse
ToNumericFails(col) ==
    \E i \in 1..Len(col) : col[i].k = "str" /\ ~IsNumText(col[i].s)

\* pd.to_numeric(col), when it does not raise
ToNumeric(col) == ToNumericCoerce(col)

\* col.isnull().sum()
CountNull(col) == Cardinality({i \in 1..Len(col) : IsNaN(col[i])})

\* col.median(): the median of the values that are not NaN (NaN if none)
Median(col) ==
    LET present == DropNa(col)
        q == SortNums([i \in 1..Len(present) |-> present[i].v])
        n == Len(q)
    IN  IF n = 0 THEN NaN
        ELSE IF n % 2 = 1 THEN Num(q[(n + 1) \div 2])
        ELSE Num((q[n \div 2] + q[n \div 2 + 1]) \div 2)

\* col.fillna(value)
FillNa(col, value) ==
    [i \in 1..Len(col) |-> IF IsNaN(col[i]) THEN value ELSE col[i]]

\* col.mode(): the most frequent values among those that are not NaN
ModeSet(col) ==
    LET present == DropNa(col)
        Count(c) == Cardinality({i \in 1..Len(present) : present[i] = c})
        vals == {present[i] : i \in 1..Len(present)}
    IN  {c \in vals : \A d \in vals : Count(d) <= Count(c)}

\* col.mode()[0]: mode() is sorted, so this is the smallest modal value
ModeFirst(col) ==
    CHOOSE c \in ModeSet(col) : \A d \in ModeSet(col) : CellKey(c) <= CellKey(d)

\* col.replace(old, new)
Replace(col, old, new) ==
    [i \in 1..Len(col) |-> IF col[i] = old THEN new ELSE col[i]]

\* col.astype(int) raises ValueError on NaN and on a string int() rejects
AsIntFails(col) ==
    \E i \in 1..Len(col) :
        \/ IsNaN(col[i])
        \/ col[i].k = "str" /\ ~IsIntText(col[i].s)

\* col.astype(int), when it does not raise: floats are truncated
AsInt(col) ==
    [i \in 1..Len(col) |->
        IF col[i].k = "str" THEN Num(NumLit[col[i].s]) ELSE Num(Trunc(col[i].v))]

\* col.map(mapping): a value that is no key of the mapping becomes NaN
MapCol(col, mapping) ==
    [i \in 1..Len(col) |->
        IF col[i].k = "num" /\ col[i].v \in DOMAIN mapping
        THEN Str(mapping[col[i].v]) ELSE NaN]

-----------------------------------------------------------------------------
(* The data set: CSV text.  header says whether the file starts with the   *)
(* line of the seven column names; rows are the data lines.                *)

Row(age, sex, bmi, children, smoker, region, charges) ==
    [age |-> age, sex |-> sex, bmi |-> bmi, children |-> children,
     smoker |-> smoker, region |-> region, charges |-> charges]

\* The data lines a file is made of.  Every line holds at least one digit.
FileRows ==
    { Row("20", "1", "22.5", "0", "0", "1", "100"),
      Row("31", "2", "22.5", "2", "1", "4", "250"),
      Row("abc", "1", "22.5", "0", "1", "1", "100"),
      Row("", "2", "22.5", "2", "?", "4", "250"),
      Row("24.5", "3", "", "0", "?", "7", "100"),
      Row("31", "abc", "22.5", "2", "1", "4", "250"),
      Row("20", "1", "22.5", "abc", "0", "1", ""),
      Row("31", "2", "22.5", "2", "1", "abc", "250"),
      Row("20", "1", "22.5", "0", "abc", "1", "100") }

\* A file has no header line (the data set as published) or has one.
Files ==
    { [header |-> FALSE, rows |-> r, known |-> TRUE] :
        r \in UNION { [1..n -> FileRows] : n \in 0..MaxRows } }
    \cup
    { [header |-> TRUE, rows |-> r, known |-> TRUE] :
        r \in UNION { [1..n -> FileRows] : n \in 0..MaxHeaderRows } }

\* The data set before anything has read it.
Unread == [header |-> FALSE, rows |-> <<>>, known |-> FALSE]

\* first_line of the file: the header line or the first data line ("" when
\* the file is empty); contains_numbers is whether it holds a digit.  The
\* column names hold none and every data line of FileRows holds one.
ContainsNumbers(f) == ~f.header /\ Len(f.rows) > 0

-----------------------------------------------------------------------------
(* MedicalInsuranceDataLoader *)

label_mappings ==
    [sex |-> (Whole(1) :> "male") @@ (Whole(2) :> "female"),
     smoker |-> (Whole(0) :> "no") @@ (Whole(1) :> "yes"),
     region |-> (Whole(1) :> "northeast") @@ (Whole(2) :> "northwest") @@
                (Whole(3) :> "southeast") @@ (Whole(4) :> "southwest")]

\* What a call returned ("" when it raised), what it raised ("" when it
\* returned), the message it printed on an early return, and the imputation
\* clean_data reported (filled = 0 and median = NaN when it reported none).
Outcome(op, returned, raised, msg) ==
    [op |-> op, returned |-> returned, raised |-> raised, msg |-> msg,
     filled |-> 0, median |-> NaN]

\* clean_data without its guard
NoRawDataNever(raw) == FALSE

\* "if self.df_raw is None" (line 112)
NoRawData(raw) == raw = "None"

\* create_labeled_data without its guard
NoCleanDataNever(clean) == FALSE

\* "if self.df_clean is None" (line 152)
NoCleanData(clean) == clean = "None"

\* df.copy() on None raises AttributeError
CopyRaises(src) == src = "None"

\* an assignment in place of a copy: the same object under a second name
DataFrameAlias(src, fresh) == src

\* df.copy(): a new object, at the allocation site `fresh`
DataFrameCopy(src, fresh) == fresh

\* the age column with the median taken after the gaps were filled (with 0)
CleanAgeMedianAfterFill(t) ==
    LET coerced == ToNumericCoerce(Col(t, "age"))
        age_missing == CountNull(coerced)
        age_median == Median(FillNa(coerced, Num(0)))
    IN  IF age_missing > 0
        THEN [tbl |-> SetCol(t, "age", FillNa(coerced, age_median)),
              filled |-> age_missing, median |-> age_median]
        ELSE [tbl |-> SetCol(t, "age", coerced), filled |-> 0, median |-> NaN]

\* clean_data, lines 119-126: the age column
CleanAge(t) ==
    LET coerced == ToNumericCoerce(Col(t, "age"))
        age_missing == CountNull(coerced)
        age_median == Median(coerced)
    IN  IF age_missing > 0
        THEN [tbl |-> SetCol(t, "age", FillNa(coerced, age_median)),
              filled |-> age_missing, median |-> age_median]
        ELSE [tbl |-> SetCol(t, "age", coerced), filled |-> 0, median |-> NaN]

\* clean_data, line 130: the value the sentinel is replaced with.  The test
\* "'?' not in str(mode().values)" is made first; mode()[0] is evaluated
\* only when it holds, and raises KeyError when mode() is empty.
SmokerMode(col) ==
    IF Str("?") \notin ModeSet(col)
    THEN IF ModeSet(col) = {} THEN [raised |-> "KeyError", value |-> NaN]
         ELSE [raised |-> "", value |-> ModeFirst(col)]
    ELSE [raised |-> "", value |-> Str("0")]

\* clean_data, lines 128-132: the smoker column
CleanSmoker(t) ==
    LET smoker_mode == SmokerMode(Col(t, "smoker"))
        replaced == SetCol(t, "smoker",
                           Replace(Col(t, "smoker"), Str("?"), smoker_mode.value))
    IN  IF smoker_mode.raised # "" THEN [tbl |-> t, raised |-> smoker_mode.raised]
        ELSE IF ToNumericFails(Col(replaced, "smoker"))
        THEN [tbl |-> replaced, raised |-> "ValueError"]
        ELSE [tbl |-> SetCol(replaced, "smoker", ToNumeric(Col(replaced, "smoker"))),
              raised |-> ""]

\* the columns clean_data casts to int, in the order of lines 136-140
IntColumns == <<"age", "sex", "children", "smoker", "region">>

RECURSIVE ConvertTypesSkipping(_, _)
\* the casts with a column that cannot be cast left as it is
ConvertTypesSkipping(t, cols) ==
    IF cols = <<>> THEN [tbl |-> t, raised |-> ""]
    ELSE IF AsIntFails(Col(t, Head(cols))) THEN ConvertTypesSkipping(t, Tail(cols))
    ELSE ConvertTypesSkipping(SetCol(t, Head(cols), AsInt(Col(t, Head(cols)))),
                              Tail(cols))

RECURSIVE ConvertTypes(_, _)
\* clean_data, lines 134-140: astype(int), one column after the other; the
\* first cast that raises leaves the later columns as they were
ConvertTypes(t, cols) ==
    IF cols = <<>> THEN [tbl |-> t, raised |-> ""]
    ELSE IF AsIntFails(Col(t, Head(cols))) THEN [tbl |-> t, raised |-> "ValueError"]
    ELSE ConvertTypes(SetCol(t, Head(cols), AsInt(Col(t, Head(cols)))), Tail(cols))

\* clean_data, lines 119-143, on the copy t of the raw table: the table the
\* copy has become when the method returns or raises
CleanRun(t) ==
    LET a == CleanAge(t)
        sm == CleanSmoker(a.tbl)
        cv == ConvertTypes(sm.tbl, IntColumns)
    IN  IF sm.raised # ""
        THEN [tbl |-> sm.tbl, raised |-> sm.raised, filled |-> a.filled, median |-> a.median]
        ELSE [tbl |-> cv.tbl, raised |-> cv.raised, filled |-> a.filled, median |-> a.median]

\* create_labeled_data, lines 156-161, on the copy t of the clean table
LabelRun(t) ==
    LET l1 == AddCol(t, "sex_label", MapCol(Col(t, "sex"), label_mappings.sex))
        l2 == AddCol(l1, "smoker_label", MapCol(Col(t, "smoker"), label_mappings.smoker))
    IN  AddCol(l2, "region_label", MapCol(Col(t, "region"), label_mappings.region))

\* The object create_labeled_data returned belongs to its caller; it is
\* dropped when the next call's result takes its place.
Release(h) == [h EXCEPT !["labeled"] = NoFrame]

\* analysis_results = {}: no phase has an entry
EmptyBundle ==
    [basic_stats |-> <<>>, correlation |-> <<>>, groups |-> <<>>,
     statistical_tests |-> <<>>, insights |-> <<>>]

\* the tests of statistical_tests, in the order it runs them
TestNames == <<"smoker_ttest", "sex_ttest", "region_anova">>

\* nothing has asked scipy yet
Undetermined == [t \in NameSet(TestNames) |-> "unknown"]

\* __init__: a loader is given a url or a local path
Init ==
    /\ remote = Unread
    /\ \/ url = TRUE /\ local_path = "None" /\ disk = FALSE
       \/ url = FALSE /\ local_path = "None" /\ disk = FALSE
       \/ url = FALSE /\ local_path = "given" /\ disk \in BOOLEAN
    /\ df_raw = "None"
    /\ df_clean = "None"
    /\ heap = [r \in {"raw", "clean", "labeled"} |-> NoFrame]
    /\ ret = Outcome("__init__", "", "", "")
    /\ an_df_clean = "None"
    /\ an_df_labeled = "None"
    /\ analysis_results = EmptyBundle
    /\ p_below_alpha = Undetermined
    /\ writes = <<>>
    /\ rerun = FALSE
    /\ pc = "idle"
    /\ stages = <<>>
    /\ main_ret = ""

\* download_data: requests.get succeeds or raises
download_data_call ==
    /\ \/ /\ ~url
          /\ ret' = Outcome("download_data", "False", "", "No URL provided")
          /\ UNCHANGED <<local_path, disk>>
       \/ /\ url
          /\ local_path' = "save_path"
          /\ disk' = TRUE
          /\ ret' = Outcome("download_data", "True", "", "")
       \/ /\ url
          /\ ret' = Outcome("download_data", "False", "", "Download failed")
          /\ UNCHANGED <<local_path, disk>>
    /\ heap' = Release(heap)
    /\ UNCHANGED <<url, remote, df_raw, df_clean>>
    /\ UNCHANGED analyzerVars

\* a call of download_data by a client of the loader
download_data == download_data_call /\ UNCHANGED mainVars

\* load_data: the file is the data set, whatever it turns out to hold
load_data_call ==
    /\ IF local_path = "None"
       THEN /\ ret' = Outcome("load_data", "None", "", "No local path specified")
            /\ heap' = Release(heap)
            /\ UNCHANGED <<df_raw, remote>>
       ELSE IF ~disk
       THEN \* open() raised inside the try block
            /\ ret' = Outcome("load_data", "None", "", "Loading failed")
            /\ heap' = Release(heap)
            /\ UNCHANGED <<df_raw, remote>>
       ELSE \E f \in (IF remote.known THEN {remote} ELSE Files) :
            /\ remote' = f
            /\ IF ~f.header /\ Len(f.rows) = 0
               THEN \* read_csv raised inside the try block: nothing to parse
                    /\ ret' = Outcome("load_data", "None", "", "Loading failed")
                    /\ heap' = Release(heap)
                    /\ UNCHANGED df_raw
               ELSE /\ df_raw' = "raw"
                    /\ heap' = [Release(heap) EXCEPT !["raw"] = ReadCsv(f)]
                    /\ ret' = Outcome("load_data", "raw", "",
                                      IF ContainsNumbers(f) THEN "inferred columns"
                                      ELSE "existing columns")
    /\ UNCHANGED <<url, local_path, disk, df_clean>>
    /\ UNCHANGED analyzerVars

\* a call of load_data by a client of the loader
load_data == load_data_call /\ UNCHANGED mainVars

\* clean_data
clean_data_call ==
    /\ IF NoRawData(df_raw)
       THEN /\ ret' = Outcome("clean_data", "None", "",
                              "No raw data available. Load data first.")
            /\ heap' = Release(heap)
            /\ UNCHANGED df_clean
       ELSE IF CopyRaises(df_raw)
       THEN /\ ret' = Outcome("clean_data", "", "AttributeError", "")
            /\ heap' = Release(heap)
            /\ UNCHANGED df_clean
       ELSE LET ref == DataFrameCopy(df_raw, "clean")
                run == CleanRun(heap[df_raw])
            IN  /\ df_clean' = ref
                /\ heap' = [Release(heap) EXCEPT ![ref] = run.tbl]
                /\ ret' = [Outcome("clean_data",
                                   IF run.raised = "" THEN ref ELSE "",
                                   run.raised, "") EXCEPT
                              !.filled = run.filled, !.median = run.median]
    /\ UNCHANGED <<url, local_path, disk, remote, df_raw>>
    /\ UNCHANGED analyzerVars

\* a call of clean_data by a client of the loader
clean_data == clean_data_call /\ UNCHANGED mainVars

\* create_labeled_data
create_labeled_data_call ==
    /\ IF NoCleanData(df_clean)
       THEN /\ ret' = Outcome("create_labeled_data", "None", "",
                              "No clean data available. Clean data first.")
            /\ heap' = Release(heap)
       ELSE IF CopyRaises(df_clean)
       THEN /\ ret' = Outcome("create_labeled_data", "", "AttributeError", "")
            /\ heap' = Release(heap)
       ELSE LET ref == DataFrameCopy(df_clean, "labeled")
            IN  /\ heap' = [heap EXCEPT ![ref] = LabelRun(heap[df_clean])]
                /\ ret' = Outcome("create_labeled_data", ref, "", "")
    /\ UNCHANGED <<url, local_path, disk, remote, df_raw, df_clean>>
    /\ UNCHANGED analyzerVars

\* a call of create_labeled_data by a client of the loader
create_labeled_data == create_labeled_data_call /\ UNCHANGED mainVars

Next ==
    \/ download_data
    \/ load_data
    \/ clean_data
    \/ create_labeled_data

Spec == Init /\ [][Next]_vars

-----------------------------------------------------------------------------
(* MedicalInsuranceAnalyzer.  The bundle analysis_results is a record of     *)
(* the five phase names; an entry is <<>> while the key is absent and        *)
(* <<value>> once the phase has written it.  (The insertion order of the     *)
(* dict is not part of the model.)                                           *)

Has(b, k) == b[k] # <<>>

Get(b, k) == b[k][1]

\* an assignment that starts the bundle afresh
PutAfresh(b, k, v) == [EmptyBundle EXCEPT ![k] = <<v>>]

\* self.analysis_results[k] = v
Put(b, k, v) == [b EXCEPT ![k] = <<v>>]

RECURSIVE SumSeq(_)
SumSeq(q) == IF q = <<>> THEN 0 ELSE Head(q) + SumSeq(Tail(q))

RECURSIVE Gcd(_, _)
Gcd(a, b) == IF b = 0 THEN a ELSE Gcd(b, a % b)

\* the numbers of a numeric column
Values(col) == [i \in 1..Len(col) |-> col[i].v]

\* A correlation coefficient r, kept exactly: nan, or sign * sqrt(num/den)
\* with num/den in lowest terms.
NaNCorr == [nan |-> TRUE, sign |-> 0, num |-> 0, den |-> 1]

\* Pearson's r of two columns; NaN when there are fewer than two rows or a
\* column is constant
Pearson(xs, ys) ==
    LET n == Len(xs)
        sx == SumSeq(xs)
        sy == SumSeq(ys)
        cxy == n * SumSeq([i \in 1..n |-> xs[i] * ys[i]]) - sx * sy
        cxx == n * SumSeq([i \in 1..n |-> xs[i] * xs[i]]) - sx * sx
        cyy == n * SumSeq([i \in 1..n |-> ys[i] * ys[i]]) - sy * sy
        g == Gcd(cxy * cxy, cxx * cyy)
    IN  IF n < 2 \/ cxx = 0 \/ cyy = 0 THEN NaNCorr
        ELSE [nan |-> FALSE,
              sign |-> IF cxy > 0 THEN 1 ELSE IF cxy < 0 THEN -1 ELSE 0,
              num |-> (cxy * cxy) \div g,
              den |-> (cxx * cyy) \div g]

\* Series.abs()
AbsCorr(r) == [r EXCEPT !.sign = IF r.sign < 0 THEN 1 ELSE r.sign]

\* |a| > |b|, for two coefficients that are not NaN
AbsGreater(a, b) == a.num * b.den > b.num * a.den

\* a descending sort that puts the later of two equal entries first
SortDescendingLastFirst(q) ==
    LET Before(k, j) ==
            \/ ~q[k].value.nan /\ q[j].value.nan
            \/ /\ ~q[k].value.nan /\ ~q[j].value.nan
               /\ \/ AbsGreater(q[k].value, q[j].value)
                  \/ ~AbsGreater(q[j].value, q[k].value) /\ k > j
            \/ q[k].value.nan /\ q[j].value.nan /\ k > j
        Position(j) == 1 + Cardinality({k \in 1..Len(q) : k # j /\ Before(k, j)})
    IN  [p \in 1..Len(q) |-> q[CHOOSE j \in 1..Len(q) : Position(j) = p]]

\* sort_values(ascending=False) of the entries q (name, value): larger values
\* first, equal values in their original order, NaN last
SortDescending(q) ==
    LET Before(k, j) ==
            \/ ~q[k].value.nan /\ q[j].value.nan
            \/ /\ ~q[k].value.nan /\ ~q[j].value.nan
               /\ \/ AbsGreater(q[k].value, q[j].value)
                  \/ ~AbsGreater(q[j].value, q[k].value) /\ k < j
            \/ q[k].value.nan /\ q[j].value.nan /\ k < j
        Position(j) == 1 + Cardinality({k \in 1..Len(q) : k # j /\ Before(k, j)})
    IN  [p \in 1..Len(q) |-> q[CHOOSE j \in 1..Len(q) : Position(j) = p]]

\* the columns of t other than c, in order
RECURSIVE Without(_, _)
Without(cols, c) ==
    IF cols = <<>> THEN <<>>
    ELSE IF Head(cols) = c THEN Without(Tail(cols), c)
    ELSE <<Head(cols)>> \o Without(Tail(cols), c)

\* A phase's result: the bundle it leaves and what it raised ("" if nothing)
Done(b) == [bundle |-> b, raised |-> ""]

Raised(b, e) == [bundle |-> b, raised |-> e]

\* col.min() and col.max(): of the values that are not NaN (NaN if none)
ColMin(col) ==
    LET present == DropNa(col)
    IN  IF present = <<>> THEN NaN
        ELSE Num(CHOOSE x \in {present[i].v : i \in 1..Len(present)} :
                     \A i \in 1..Len(present) : x <= present[i].v)

ColMax(col) ==
    LET present == DropNa(col)
    IN  IF present = <<>> THEN NaN
        ELSE Num(CHOOSE x \in {present[i].v : i \in 1..Len(present)} :
                     \A i \in 1..Len(present) : x >= present[i].v)

\* the statistics of the columns cols of t, in order
RECURSIVE Describe(_, _)
Describe(t, cols) ==
    IF cols = <<>> THEN <<>>
    ELSE <<[name |-> Head(cols),
            count |-> Len(DropNa(Col(t, Head(cols)))),
            min |-> ColMin(Col(t, Head(cols))),
            max |-> ColMax(Col(t, Head(cols))),
            median |-> Median(Col(t, Head(cols)))]>>
         \o Describe(t, Tail(cols))

\* basic_statistics, lines 42-57: describe() and the additional statistics
\* of the numeric columns (count, min, max and median are kept)
BasicStatistics(b, t) ==
    LET rows == Describe(t, t.columns)
        Of(c) == rows[CHOOSE j \in 1..Len(rows) : rows[j].name = c]
    IN  Done(Put(b, "basic_stats",
             [descriptive |->
                  [c \in NameSet(t.columns) |->
                      [count |-> Of(c).count, min |-> Of(c).min, max |-> Of(c).max]],
              additional |->
                  [median |-> [c \in NameSet(t.columns) |-> Of(c).median]]]))

\* the cells of col in the rows where neither col nor other is NaN
RECURSIVE Complete(_, _)
Complete(col, other) ==
    IF col = <<>> THEN <<>>
    ELSE (IF IsNaN(Head(col)) \/ IsNaN(Head(other)) THEN <<>> ELSE <<Head(col)>>)
         \o Complete(Tail(col), Tail(other))

\* the coefficients of the columns cols of t with charges, in order; corr()
\* uses for each pair of columns the rows where both have a value
RECURSIVE CorrWithCharges(_, _)
CorrWithCharges(t, cols) ==
    IF cols = <<>> THEN <<>>
    ELSE <<[name |-> Head(cols),
            value |-> Pearson(Values(Complete(Col(t, Head(cols)), Col(t, "charges"))),
                              Values(Complete(Col(t, "charges"), Col(t, Head(cols)))))]>>
         \o CorrWithCharges(t, Tail(cols))

\* correlation_analysis, lines 68-78: the entry.  Of the matrix its charges
\* column is kept.
CorrelationEntry(t) ==
    LET corr == CorrWithCharges(t, t.columns)
        matrix == [c \in NameSet(t.columns) |->
                      corr[CHOOSE j \in 1..Len(corr) : corr[j].name = c].value]
        others == Without(t.columns, "charges")
        charges_corr ==
            SortDescending([j \in 1..Len(others) |->
                [name |-> others[j], value |-> AbsCorr(matrix[others[j]])]])
    IN  [matrix |-> matrix,
         charges_correlations |-> charges_corr,
         strongest_predictor |-> charges_corr[1].name,
         strongest_correlation |-> charges_corr[1].value]

\* a correlation_analysis that goes on without charges and writes an entry
\* of NaN
CorrelationAnalysisLenient(b, t) ==
    IF ~HasColumn(t, "charges")
    THEN Done(Put(b, "correlation",
                  [matrix |-> [c \in NameSet(t.columns) |-> NaNCorr],
                   charges_correlations |-> <<>>,
                   strongest_predictor |-> "",
                   strongest_correlation |-> NaNCorr]))
    ELSE Done(Put(b, "correlation", CorrelationEntry(t)))

\* correlation_analysis, lines 68-80.  corr_matrix['charges'] raises KeyError
\* when there is no charges column, before anything is written.
CorrelationAnalysis(b, t) ==
    IF ~HasColumn(t, "charges") THEN Raised(b, "KeyError")
    ELSE Done(Put(b, "correlation", CorrelationEntry(t)))

\* the cells of vals in the rows whose key is k
RECURSIVE GroupCells(_, _, _)
GroupCells(keys, vals, k) ==
    IF keys = <<>> THEN <<>>
    ELSE IF Head(keys) = k THEN <<Head(vals)>> \o GroupCells(Tail(keys), Tail(vals), k)
    ELSE GroupCells(Tail(keys), Tail(vals), k)

\* agg(['count','mean','median','std','min','max']) of the cells of one
\* group: count is the number of cells that are not NaN and the mean is
\* their sum / count (NaN when count is 0); std is not kept
Aggregate(cells) ==
    [count |-> Len(DropNa(cells)),
     sum |-> SumSeq(Values(DropNa(cells))),
     median |-> Median(cells),
     min |-> ColMin(cells),
     max |-> ColMax(cells)]

\* the aggregates of the groups with the keys ks
RECURSIVE GroupRows(_, _, _)
GroupRows(ks, keys, vals) ==
    IF ks = {} THEN <<>>
    ELSE LET k == CHOOSE x \in ks : TRUE
         IN  <<[key |-> k, stats |-> Aggregate(GroupCells(keys, vals, k))]>>
             \o GroupRows(ks \ {k}, keys, vals)

\* a grouping that also leaves out the key 0
GroupStatsNonZero(keys, vals) ==
    LET ks == {keys[i] : i \in {j \in 1..Len(keys) : ~IsNaN(keys[j])}} \ {Num(0)}
        rows == GroupRows(ks, keys, vals)
    IN  [k \in ks |-> rows[CHOOSE j \in 1..Len(rows) : rows[j].key = k].stats]

\* df.groupby(key)['charges'].agg([...]): one row per key that is not NaN
GroupStats(keys, vals) ==
    LET ks == {keys[i] : i \in {j \in 1..Len(keys) : ~IsNaN(keys[j])}}
        rows == GroupRows(ks, keys, vals)
    IN  [k \in ks |-> rows[CHOOSE j \in 1..Len(rows) : rows[j].key = k].stats]

\* the optional dimensions and the label column each one needs
Dimensions == <<"smoker", "sex", "region">>

LabelOf(d) == [smoker |-> "smoker_label", sex |-> "sex_label",
               region |-> "region_label"][d]

\* group_analysis, lines 91-121, on the clean table tc and the table tl the
\* analyzer uses for labels.  ['charges'] on a groupby raises KeyError when
\* the column is missing; the children aggregate is always computed.
GroupAnalysis(b, tc, tl) ==
    IF \/ ~HasColumn(tc, "charges")
       \/ ~HasColumn(tl, "charges")
             /\ \E d \in NameSet(Dimensions) : HasColumn(tl, LabelOf(d))
    THEN Raised(b, "KeyError")
    ELSE Done(Put(b, "groups",
             [d \in NameSet(Dimensions) \cup {"children"} |->
                 IF d = "children"
                 THEN <<GroupStats(Col(tc, "children"), Col(tc, "charges"))>>
                 ELSE IF HasColumn(tl, LabelOf(d))
                 THEN <<GroupStats(Col(tl, LabelOf(d)), Col(tl, "charges"))>>
                 ELSE <<>>]))

\* the test of a dimension and the two labels a t-test compares
TestOf(d) == [smoker |-> "smoker_ttest", sex |-> "sex_ttest",
              region |-> "region_anova"][d]

\* the number of rows of tl whose label column c holds the label l
LabelCount(tl, c, l) == Cardinality({i \in 1..NRows(tl) : Col(tl, c)[i] = Str(l)})

\* whether the charges of a row of tl whose label column c holds l are NaN
MissingIn(tl, c, l) ==
    \E i \in 1..NRows(tl) : Col(tl, c)[i] = Str(l) /\ IsNaN(Col(tl, "charges")[i])

\* stats.ttest_ind gives a NaN p-value when one of the groups is empty or
\* holds a NaN, and NaN < 0.05 is False
TTestIsNaN(tl, d) ==
    \/ d = "smoker" /\ \/ LabelCount(tl, "smoker_label", "yes") = 0
                       \/ LabelCount(tl, "smoker_label", "no") = 0
                       \/ MissingIn(tl, "smoker_label", "yes")
                       \/ MissingIn(tl, "smoker_label", "no")
    \/ d = "sex" /\ \/ LabelCount(tl, "sex_label", "male") = 0
                    \/ LabelCount(tl, "sex_label", "female") = 0
                    \/ MissingIn(tl, "sex_label", "male")
                    \/ MissingIn(tl, "sex_label", "female")

\* the groups of df.groupby('region_label')
RegionGroups(tl) ==
    {Col(tl, "region_label")[i] :
        i \in {j \in 1..NRows(tl) : ~IsNaN(Col(tl, "region_label")[j])}}

\* stats.f_oneway raises TypeError when it is given fewer than two samples
AnovaRaises(tl) == Cardinality(RegionGroups(tl)) < 2

\* stats.f_oneway gives a NaN p-value when one of the samples holds a NaN
AnovaIsNaN(tl) ==
    \E i \in 1..NRows(tl) :
        ~IsNaN(Col(tl, "region_label")[i]) /\ IsNaN(Col(tl, "charges")[i])

\* whether the p-value of the test of dimension d on tl is NaN
PValueIsNaN(tl, d) == TTestIsNaN(tl, d) \/ (d = "region" /\ AnovaIsNaN(tl))

\* the tests statistical_tests computes on tl
TestsRun(tl) == {TestOf(d) : d \in {e \in NameSet(Dimensions) : HasColumn(tl, LabelOf(e))}}

\* statistical_tests, lines 136-161: what the tests raise on tl ("" if
\* nothing): KeyError when a test selects charges and tl has none, TypeError
\* when the ANOVA is given fewer than two region groups
TestsError(tl) ==
    IF TestsRun(tl) # {} /\ ~HasColumn(tl, "charges") THEN "KeyError"
    ELSE IF HasColumn(tl, "region_label") /\ AnovaRaises(tl) THEN "TypeError"
    ELSE ""

\* statistical_tests, lines 132-169, on the table tl the analyzer uses for
\* labels; below[t] is whether scipy's p-value of test t is below 0.05.
\* The entry is written only after all three tests.
StatisticalTests(b, tl, below) ==
    IF TestsError(tl) # "" THEN Raised(b, TestsError(tl))
    ELSE Done(Put(b, "statistical_tests",
             [t \in NameSet(TestNames) |->
                 IF t \in TestsRun(tl) THEN <<[significant |-> below[t]]>> ELSE <<>>]))

\* corr >= p / 10 for a coefficient corr and 0 < p: corr is positive and
\* corr^2 >= p^2 / 100; every comparison with NaN is False
AtLeastTenths(corr, p) ==
    ~corr.nan /\ corr.sign > 0 /\ 100 * corr.num >= p * p * corr.den

\* an interpretation that compares the signed value
InterpretCorrelationSigned(corr_value) ==
    IF AtLeastTenths(corr_value, 7) THEN "Strong"
    ELSE IF AtLeastTenths(corr_value, 5) THEN "Moderate"
    ELSE IF AtLeastTenths(corr_value, 3) THEN "Weak"
    ELSE "Very weak"

\* _interpret_correlation, lines 230-239
InterpretCorrelation(corr_value) ==
    LET abs_corr == AbsCorr(corr_value)
    IN  IF AtLeastTenths(abs_corr, 7) THEN "Strong"
        ELSE IF AtLeastTenths(abs_corr, 5) THEN "Moderate"
        ELSE IF AtLeastTenths(abs_corr, 3) THEN "Weak"
        ELSE "Very weak"

\* mean a < mean b, the means being sum / count
MeanLess(a, b) == a.sum * b.count < b.sum * a.count

\* the labels of a group table in index (sorted) order
LabelOrder == <<"female", "male", "no", "northeast", "northwest", "southeast",
                "southwest", "yes">>

LabelRank(l) == CHOOSE i \in 1..Len(LabelOrder) : LabelOrder[i] = l

\* the groups of g whose mean is not NaN; max(), min(), idxmax() and
\* idxmin() skip the others
HasMean(g) == {k \in DOMAIN g : g[k].count > 0}

\* Series.idxmax(): the first label, in index order, whose mean is largest
IdxMax(g) ==
    CHOOSE k \in HasMean(g) :
        /\ \A j \in HasMean(g) : ~MeanLess(g[k], g[j])
        /\ \A j \in HasMean(g) :
               ~MeanLess(g[j], g[k]) => LabelRank(k.s) <= LabelRank(j.s)

\* Series.idxmin(): the first label, in index order, whose mean is smallest
IdxMin(g) ==
    CHOOSE k \in HasMean(g) :
        /\ \A j \in HasMean(g) : ~MeanLess(g[j], g[k])
        /\ \A j \in HasMean(g) :
               ~MeanLess(g[k], g[j]) => LabelRank(k.s) <= LabelRank(j.s)

\* the quotient and the difference of two means, as fractions num / den in
\* lowest terms (den = 0: the float division gave inf or NaN)
Fraction(num, den) ==
    LET g == Gcd(IF num < 0 THEN -num ELSE num, den)
    IN  IF g = 0 THEN [num |-> 0, den |-> 0]
        ELSE [num |-> num \div g, den |-> den \div g]

\* a smoking impact that divides the smallest mean by the largest
SmokingImpactInverted(g) ==
    LET hi == g[IdxMax(g)]
        lo == g[IdxMin(g)]
    IN  [multiplier |-> Fraction(lo.sum * hi.count, hi.sum * lo.count),
         difference |-> Fraction(hi.sum * lo.count - lo.sum * hi.count,
                                 hi.count * lo.count),
         high_group |-> IdxMax(g).s,
         low_group |-> IdxMin(g).s]

\* generate_insights, lines 191-204: the smoking impact of the smoker table g
SmokingImpact(g) ==
    LET hi == g[IdxMax(g)]
        lo == g[IdxMin(g)]
    IN  [multiplier |-> Fraction(hi.sum * lo.count, lo.sum * hi.count),
         difference |-> Fraction(hi.sum * lo.count - lo.sum * hi.count,
                                 hi.count * lo.count),
         high_group |-> IdxMax(g).s,
         low_group |-> IdxMin(g).s]

\* test_name.replace('_ttest', '').replace('_anova', '')
ShortName(t) == [smoker_ttest |-> "smoker", sex_ttest |-> "sex",
                 region_anova |-> "region"][t]

\* a test that takes every entry present for significant
IsSignificantAlways(entry) == entry # <<>>

\* generate_insights, lines 211-212: the entry is in test_data and its
\* significant flag is true
IsSignificant(entry) == entry # <<>> /\ entry[1].significant

\* generate_insights, lines 206-215: the short names of the significant
\* tests, in the order of the test entries
RECURSIVE SignificantFactors(_, _)
SignificantFactors(tests, names) ==
    IF names = <<>> THEN <<>>
    ELSE (IF IsSignificant(tests[Head(names)])
          THEN <<ShortName(Head(names))>> ELSE <<>>)
         \o SignificantFactors(tests, Tail(names))

\* a generate_insights that looks up the three earlier entries without
\* testing whether they are there
GenerateInsightsUnguarded(b) ==
    IF ~Has(b, "correlation") \/ ~Has(b, "groups") \/ ~Has(b, "statistical_tests")
    THEN Raised(b, "KeyError")
    ELSE Done(Put(b, "insights",
        [correlations |->
            <<[strongest_predictor |-> Get(b, "correlation").strongest_predictor,
               correlation_value |-> Get(b, "correlation").strongest_correlation,
               interpretation |->
                   InterpretCorrelation(Get(b, "correlation").strongest_correlation)]>>,
         smoking_impact |->
            IF /\ Get(b, "groups").smoker # <<>>
               /\ Cardinality(DOMAIN Get(b, "groups").smoker[1]) >= 2
            THEN <<SmokingImpact(Get(b, "groups").smoker[1])>>
            ELSE <<>>,
         significant_factors |->
            <<SignificantFactors(Get(b, "statistical_tests"), TestNames)>>]))

\* generate_insights, lines 180-218: it reads the bundle only
GenerateInsights(b) ==
    Done(Put(b, "insights",
        [correlations |->
            IF Has(b, "correlation")
            THEN <<[strongest_predictor |-> Get(b, "correlation").strongest_predictor,
                    correlation_value |-> Get(b, "correlation").strongest_correlation,
                    interpretation |->
                        InterpretCorrelation(Get(b, "correlation").strongest_correlation)]>>
            ELSE <<>>,
         smoking_impact |->
            IF /\ Has(b, "groups")
               /\ Get(b, "groups").smoker # <<>>
               /\ Cardinality(DOMAIN Get(b, "groups").smoker[1]) >= 2
            THEN <<SmokingImpact(Get(b, "groups").smoker[1])>>
            ELSE <<>>,
         significant_factors |->
            IF Has(b, "statistical_tests")
            THEN <<SignificantFactors(Get(b, "statistical_tests"), TestNames)>>
            ELSE <<>>]))

\* the bundle key each phase assigns
KeyOf(op) ==
    [basic_statistics |-> "basic_stats", correlation_analysis |-> "correlation",
     group_analysis |-> "groups", statistical_tests |-> "statistical_tests",
     generate_insights |-> "insights"][op]

\* one phase, by name
RunPhase(op, b, tc, tl, below) ==
    CASE op = "basic_statistics" -> BasicStatistics(b, tc)
      [] op = "correlation_analysis" -> CorrelationAnalysis(b, tc)
      [] op = "group_analysis" -> GroupAnalysis(b, tc, tl)
      [] op = "statistical_tests" -> StatisticalTests(b, tl, below)
      [] op = "generate_insights" -> GenerateInsights(b)

\* the phases ops one after the other on the bundle b; a phase that raises
\* ends the run, the entries written so far stay.  wrote: the keys assigned,
\* in order.
RECURSIVE RunPhases(_, _, _, _, _)
RunPhases(ops, b, tc, tl, below) ==
    IF ops = <<>> THEN [bundle |-> b, raised |-> "", wrote |-> <<>>]
    ELSE LET p == RunPhase(Head(ops), b, tc, tl, below)
         IN  IF p.raised # ""
             THEN [bundle |-> p.bundle, raised |-> p.raised, wrote |-> <<>>]
             ELSE LET rest == RunPhases(Tail(ops), p.bundle, tc, tl, below)
                  IN  [rest EXCEPT !.wrote = <<KeyOf(Head(ops))>> \o @]

\* a run that generates the insights before the statistical tests
PhasesInsightsEarly ==
    <<"basic_statistics", "correlation_analysis", "group_analysis",
      "generate_insights", "statistical_tests">>

\* run_full_analysis, lines 250-254: the calls, in order
Phases ==
    <<"basic_statistics", "correlation_analysis", "group_analysis",
      "statistical_tests", "generate_insights">>

\* run_full_analysis, lines 250-257
RunFullAnalysis(b, tc, tl, below) == RunPhases(Phases, b, tc, tl, below)

-----------------------------------------------------------------------------
(* The analyzer's inputs and operations.  An analyzer is constructed on a    *)
(* clean table and, optionally, a labeled table; the loader is at rest.      *)

\* rows of whole numbers
AnalyzerRows ==
    << Row(1, 2, 3, 1, 0, 1, 3),
       Row(2, 1, 2, 0, 0, 1, 1),
       Row(3, 2, 3, 2, 1, 4, 4),
       Row(3, 1, 2, 0, 1, 2, 2) >>

\* the runs of 1 to MaxAnalyzerRows consecutive rows
RowRuns ==
    {SubSeq(AnalyzerRows, w[1], w[2]) :
        w \in {v \in (1..Len(AnalyzerRows)) \X (1..Len(AnalyzerRows)) :
                  v[1] <= v[2] /\ v[2] - v[1] < MaxAnalyzerRows}}

\* a clean table of the rows q
CleanFrame(q) ==
    Frame(ColumnNames, Len(q),
          [c \in NameSet(ColumnNames) |-> [i \in 1..Len(q) |-> Num(Whole(q[i][c]))]])

\* t without its column c
DropColumn(t, c) ==
    [t EXCEPT !.columns = Without(t.columns, c),
              !.data = [d \in DOMAIN t.data \ {c} |-> t.data[d]]]

\* t with the charges of its last row missing: clean_data leaves an empty
\* charges field of the file as NaN
MissingLastCharges(t) == [t EXCEPT !.data.charges[NRows(t)] = NaN]

\* the clean tables an analyzer is given: with or without a charges column,
\* and the longest ones also with a missing charges value
CleanTables ==
    LET full == {CleanFrame(q) : q \in RowRuns}
    IN  full \cup {DropColumn(t, "charges") : t \in full}
             \cup {MissingLastCharges(t) : t \in {u \in full : NRows(u) = MaxAnalyzerRows}}

\* t with the label columns of the dimensions in ds
WithLabels(t, ds) ==
    LET l1 == IF "sex" \in ds
              THEN AddCol(t, "sex_label", MapCol(Col(t, "sex"), label_mappings.sex))
              ELSE t
        l2 == IF "smoker" \in ds
              THEN AddCol(l1, "smoker_label",
                          MapCol(Col(t, "smoker"), label_mappings.smoker))
              ELSE l1
    IN  IF "region" \in ds
        THEN AddCol(l2, "region_label", MapCol(Col(t, "region"), label_mappings.region))
        ELSE l2

\* the label columns of the labeled tables an analyzer is given: one of the
\* three, or all of them
LabelSets == {{"smoker"}, {"sex"}, {"region"}, NameSet(Dimensions)}

\* __init__: df_labeled is the table given, or df_clean itself when none is
InitAnalyzer ==
    /\ remote = Unread
    /\ url = FALSE /\ local_path = "None" /\ disk = FALSE
    /\ df_raw = "None"
    /\ df_clean = "None"
    /\ \E tc \in CleanTables :
          \/ /\ heap = [r \in {"raw", "clean", "labeled"} |->
                           IF r = "clean" THEN tc ELSE NoFrame]
             /\ an_df_labeled = "clean"
          \/ \E ds \in LabelSets :
                /\ heap = [r \in {"raw", "clean", "labeled"} |->
                              IF r = "clean" THEN tc
                              ELSE IF r = "labeled" THEN WithLabels(tc, ds)
                              ELSE NoFrame]
                /\ an_df_labeled = "labeled"
    /\ an_df_clean = "clean"
    /\ analysis_results = EmptyBundle
    /\ p_below_alpha = Undetermined
    /\ writes = <<>>
    /\ rerun = FALSE
    /\ pc = "idle"
    /\ stages = <<>>
    /\ main_ret = ""
    /\ ret = Outcome("__init__", "", "", "")

\* what a call leaves: the bundle, the value returned or the exception, and
\* the keys it assigned
Leave(op, result, wrote) ==
    /\ analysis_results' = result.bundle
    /\ ret' = Outcome(op, IF result.raised = "" THEN "value" ELSE "", result.raised, "")
    /\ writes' = wrote
    /\ rerun' = (op = "run_full_analysis" /\ ret.op = "run_full_analysis")
    /\ UNCHANGED <<loaderVars, heap, an_df_clean, an_df_labeled>>

\* the key a single phase assigned
Wrote(op, result) == IF result.raised = "" THEN <<KeyOf(op)>> ELSE <<>>

\* p-value outcomes that may differ from those already seen
OraclesAnew(tl) ==
    LET written == IF TestsError(tl) = "" THEN TestsRun(tl) ELSE {}
        nan == {TestOf(d) : d \in {e \in NameSet(Dimensions) :
                                      TestOf(e) \in written /\ PValueIsNaN(tl, e)}}
    IN  {o \in [NameSet(TestNames) -> BOOLEAN] :
            \A t \in NameSet(TestNames) : t \notin written \/ t \in nan => ~o[t]}

\* the p-value outcomes scipy can give on tl: those already seen stay, a
\* test whose p-value is NaN is not significant; the outcome of a test
\* whose result is never written is left out (FALSE)
Oracles(tl) ==
    LET written == IF TestsError(tl) = "" THEN TestsRun(tl) ELSE {}
        nan == {TestOf(d) : d \in {e \in NameSet(Dimensions) :
                                      TestOf(e) \in written /\ PValueIsNaN(tl, e)}}
    IN  {o \in [NameSet(TestNames) -> BOOLEAN] :
            \A t \in NameSet(TestNames) :
                /\ p_below_alpha[t] # "unknown" => o[t] = (p_below_alpha[t] = "yes")
                /\ t \notin written \/ t \in nan => ~o[t]}

\* the outcomes seen once the tests have been computed under o
Seen(tl, o) ==
    [t \in NameSet(TestNames) |->
        IF t \in TestsRun(tl) THEN (IF o[t] THEN "yes" ELSE "no")
        ELSE p_below_alpha[t]]

basic_statistics ==
    /\ an_df_clean # "None"
    /\ LET result == BasicStatistics(analysis_results, heap[an_df_clean])
       IN  Leave("basic_statistics", result, Wrote("basic_statistics", result))
    /\ UNCHANGED p_below_alpha
    /\ UNCHANGED mainVars

correlation_analysis ==
    /\ an_df_clean # "None"
    /\ LET result == CorrelationAnalysis(analysis_results, heap[an_df_clean])
       IN  Leave("correlation_analysis", result, Wrote("correlation_analysis", result))
    /\ UNCHANGED p_below_alpha
    /\ UNCHANGED mainVars

group_analysis ==
    /\ an_df_clean # "None"
    /\ LET result == GroupAnalysis(analysis_results, heap[an_df_clean],
                                   heap[an_df_labeled])
       IN  Leave("group_analysis", result, Wrote("group_analysis", result))
    /\ UNCHANGED p_below_alpha
    /\ UNCHANGED mainVars

statistical_tests ==
    /\ an_df_clean # "None"
    /\ \E o \in Oracles(heap[an_df_labeled]) :
          LET result == StatisticalTests(analysis_results, heap[an_df_labeled], o)
          IN  /\ Leave("statistical_tests", result, Wrote("statistical_tests", result))
              /\ p_below_alpha' = IF result.raised = ""
                                  THEN Seen(heap[an_df_labeled], o)
                                  ELSE p_below_alpha
    /\ UNCHANGED mainVars

generate_insights ==
    /\ an_df_clean # "None"
    /\ LET result == GenerateInsights(analysis_results)
       IN  Leave("generate_insights", result, Wrote("generate_insights", result))
    /\ UNCHANGED p_below_alpha
    /\ UNCHANGED mainVars

run_full_analysis_call ==
    /\ an_df_clean # "None"
    /\ \E o \in Oracles(heap[an_df_labeled]) :
          LET result == RunFullAnalysis(analysis_results, heap[an_df_clean],
                                        heap[an_df_labeled], o)
          IN  /\ Leave("run_full_analysis", result, result.wrote)
              /\ p_below_alpha' = IF result.raised = ""
                                  THEN Seen(heap[an_df_labeled], o)
                                  ELSE p_below_alpha

\* a call of run_full_analysis by a client of the analyzer
run_full_analysis == run_full_analysis_call /\ UNCHANGED mainVars

\* export_results, lines 268-285: the bundle is read and written to a JSON
\* file; open() succeeds or raises OSError
export_results_call ==
    /\ an_df_clean # "None"
    /\ \E raised \in {"", "OSError"} :
          Leave("export_results", [bundle |-> analysis_results, raised |-> raised], <<>>)
    /\ UNCHANGED p_below_alpha

\* a call of export_results by a client of the analyzer
export_results == export_results_call /\ UNCHANGED mainVars

NextAnalyzer ==
    \/ basic_statistics
    \/ correlation_analysis
    \/ group_analysis
    \/ statistical_tests
    \/ generate_insights
    \/ run_full_analysis
    \/ export_results

SpecAnalyzer == InitAnalyzer /\ [][NextAnalyzer]_vars

-----------------------------------------------------------------------------
(* main() of src/main.py, from the try block on (lines 61-168): one step    *)
(* per call it makes.  The loader and the analyzer are the objects above;   *)
(* writing the CSV files, the visualizer and the summary report either      *)
(* complete or raise.                                                       *)

\* the largest number of data lines of the data set main downloads
MaxMainRows == 2

\* The data lines of the data set main downloads: three regular lines, a
\* line without age and with the smoker sentinel, a line whose sex is not a
\* number, a line without charges.
MainRows ==
    { Row("1", "2", "3", "1", "0", "1", "3"),
      Row("2", "1", "2", "0", "0", "1", "1"),
      Row("3", "2", "3", "2", "1", "4", "4"),
      Row("", "1", "2", "0", "?", "2", "2"),
      Row("3", "abc", "2", "0", "1", "2", "2"),
      Row("2", "1", "2", "0", "0", "3", "") }

\* the data set at DATA_URL: with or without a header line
MainFiles ==
    { [header |-> h, rows |-> r, known |-> TRUE] :
        h \in BOOLEAN, r \in UNION { [1..n -> MainRows] : n \in 0..MaxMainRows } }

\* the calls of main, in the order of lines 71-135
MainSteps ==
    <<"download", "load", "clean", "label", "save", "new_analyzer", "analyze",
      "export", "visualize", "report">>

\* the step after s ("done" after the last)
StepAfter(s) ==
    LET i == CHOOSE j \in 1..Len(MainSteps) : MainSteps[j] = s
    IN  IF i = Len(MainSteps) THEN "done" ELSE MainSteps[i + 1]

\* the steps that are pipeline stages; the others write files or construct
StageSteps == {"download", "load", "clean", "label", "analyze", "export",
               "visualize", "report"}

\* early returns that only look at the download
EarlyReturnDownloadOnly(r) == r.op = "download_data" /\ r.returned = "False"

\* main, lines 71-84: "if not loader.download_data()", "if raw_data is
\* None", "if clean_data is None": the results at which main returns False
EarlyReturn(r) ==
    \/ r.op = "download_data" /\ r.returned = "False"
    \/ r.op = "load_data" /\ r.returned = "None"
    \/ r.op = "clean_data" /\ r.returned = "None"

\* main after the call of step s ended as r: "except Exception" (lines
\* 163-167) and the early returns give False, the last step gives True
\* (line 161), any other step is followed by the next
Proceed(s, r) ==
    /\ stages' = IF s \in StageSteps THEN Append(stages, s) ELSE stages
    /\ IF r.raised # "" \/ EarlyReturn(r)
       THEN pc' = "done" /\ main_ret' = "False"
       ELSE /\ pc' = StepAfter(s)
            /\ main_ret' = IF StepAfter(s) = "done" THEN "True" ELSE main_ret

\* a call that touches neither the loader nor the analyzer, ended as r
Aside(r) ==
    /\ ret' = r
    /\ UNCHANGED <<loaderVars, heap, analyzerVars>>

\* main is called: line 68, loader = MedicalInsuranceDataLoader(url=DATA_URL)
InitMain ==
    /\ remote \in MainFiles
    /\ url = TRUE /\ local_path = "None" /\ disk = FALSE
    /\ df_raw = "None"
    /\ df_clean = "None"
    /\ heap = [r \in {"raw", "clean", "labeled"} |-> NoFrame]
    /\ ret = Outcome("__init__", "", "", "")
    /\ an_df_clean = "None"
    /\ an_df_labeled = "None"
    /\ analysis_results = EmptyBundle
    /\ p_below_alpha = Undetermined
    /\ writes = <<>>
    /\ rerun = FALSE
    /\ pc = "download"
    /\ stages = <<>>
    /\ main_ret = ""

\* line 71: loader.download_data()
main_download ==
    /\ pc = "download"
    /\ download_data_call
    /\ Proceed("download", ret')

\* line 75: raw_data = loader.load_data()
main_load ==
    /\ pc = "load"
    /\ load_data_call
    /\ Proceed("load", ret')

\* line 81: clean_data = loader.clean_data()
main_clean ==
    /\ pc = "clean"
    /\ clean_data_call
    /\ Proceed("clean", ret')

\* line 87: labeled_data = loader.create_labeled_data()
main_label ==
    /\ pc = "label"
    /\ create_labeled_data_call
    /\ Proceed("label", ret')

\* lines 90-91: clean_data.to_csv(...) and labeled_data.to_csv(...); a
\* labeled_data of None has no to_csv, and writing a file can fail
main_save ==
    /\ pc = "save"
    /\ \E raised \in (IF ret.returned = "None" THEN {"AttributeError"}
                      ELSE {"", "OSError"}) :
          /\ Aside(Outcome("to_csv", "", raised, ""))
          /\ Proceed("save", ret')

\* line 105: analyzer = MedicalInsuranceAnalyzer(clean_data, labeled_data)
main_new_analyzer ==
    /\ pc = "new_analyzer"
    /\ an_df_clean' = df_clean
    /\ an_df_labeled' = "labeled"
    /\ analysis_results' = EmptyBundle
    /\ ret' = Outcome("__init__", "", "", "")
    /\ UNCHANGED <<loaderVars, heap, p_below_alpha, writes, rerun>>
    /\ Proceed("new_analyzer", ret')

\* line 108: analysis_results = analyzer.run_full_analysis()
main_analyze ==
    /\ pc = "analyze"
    /\ run_full_analysis_call
    /\ Proceed("analyze", ret')

\* line 111: analyzer.export_results(...)
main_export ==
    /\ pc = "export"
    /\ export_results_call
    /\ Proceed("export", ret')

\* lines 123-126: the visualizer is constructed and draws the six plots, or
\* one of the plots raises
main_visualize ==
    /\ pc = "visualize"
    /\ \E raised \in {"", "Exception"} :
          /\ Aside(Outcome("create_all_required_plots",
                           IF raised = "" THEN "figures" ELSE "", raised, ""))
          /\ Proceed("visualize", ret')

\* line 135: generate_summary_report(loader, analyzer, OUTPUT_DIR), lines
\* 170-281: the report is written, or formatting or open() raises
main_report ==
    /\ pc = "report"
    /\ \E raised \in {"", "Exception"} :
          /\ Aside(Outcome("generate_summary_report",
                           IF raised = "" THEN "None" ELSE "", raised, ""))
          /\ Proceed("report", ret')

NextMain ==
    \/ main_download
    \/ main_load
    \/ main_clean
    \/ main_label
    \/ main_save
    \/ main_new_analyzer
    \/ main_analyze
    \/ main_export
    \/ main_visualize
    \/ main_report

SpecMain == InitMain /\ [][NextMain]_vars

-----------------------------------------------------------------------------
(* Properties of the loader.  The raw content is read off the CSV text      *)
(* (remote), not off the DataFrames the loader built from it.               *)

\* clean_data went past its guard (it returned a table or raised)
CleanRan == ret.op = "clean_data" /\ ret.returned # "None"

\* clean_data returned a table
CleanReturned == ret.op = "clean_data" /\ ret.raised = "" /\ ret.returned # "None"

RawIndex == 1..Len(remote.rows)

RawText(c) == [i \in RawIndex |-> remote.rows[i][c]]

\* the text is there and is no number
NonNumeric(t) == t # "" /\ t \notin DOMAIN NumLit

CleanCell(c, i) == heap[df_clean].data[c][i]

\* C1: clean_data on a loader without a raw table signals "not loaded" (it
\* returns None with the message "No raw data available. Load data first.",
\* the code's form of NotLoadedError) and produces no clean table.
C1_NotLoaded ==
    (ret.op = "clean_data" /\ df_raw = "None")
        => /\ ret.returned = "None"
           /\ ret.raised = ""
           /\ ret.msg = "No raw data available. Load data first."
           /\ df_clean = "None"
           /\ heap["clean"] = NoFrame

C1_Witness ==
    ret.op = "clean_data" /\ df_raw = "None" /\ ret.returned = "None"

\* C2: create_labeled_data on a loader whose clean_data has not produced a
\* table (df_clean is None) signals "not cleaned" (it returns None with the
\* message "No clean data available. Clean data first.", the code's form of
\* NotCleanedError) and produces no labeled table.
C2_NotCleaned ==
    (ret.op = "create_labeled_data" /\ df_clean = "None")
        => /\ ret.returned = "None"
           /\ ret.raised = ""
           /\ ret.msg = "No clean data available. Clean data first."
           /\ heap["labeled"] = NoFrame

C2_Witness ==
    /\ ret.op = "create_labeled_data"
    /\ df_clean = "None"
    /\ df_raw # "None"
    /\ ret.returned = "None"

\* The ages of the CSV text that parse as numbers, and those that do not.
ParseableAges == {i \in RawIndex : RawText("age")[i] \in DOMAIN NumLit}

MissingAges == RawIndex \ ParseableAges

AgeValue(i) == NumLit[RawText("age")[i]]

\* the r-th smallest parseable age: fewer than r ages lie below it and at
\* least r ages are not above it
AgeOrderStat(r) ==
    CHOOSE x \in {AgeValue(i) : i \in ParseableAges} :
        /\ Cardinality({i \in ParseableAges : AgeValue(i) < x}) < r
        /\ Cardinality({i \in ParseableAges : AgeValue(i) <= x}) >= r

\* the median of exactly the parseable ages
AgeMedian ==
    LET n == Cardinality(ParseableAges)
    IN  IF n % 2 = 1 THEN AgeOrderStat((n + 1) \div 2)
        ELSE (AgeOrderStat(n \div 2) + AgeOrderStat(n \div 2 + 1)) \div 2

\* C3 as stated: with N parseable and M >= 1 unparseable or missing ages,
\* clean_data puts the median of the N parseable ages in each of the M places,
\* keeps the N parseable ages and reports M as the number of filled values.
C3_MedianKept ==
    (CleanRan /\ MissingAges # {} /\ ParseableAges # {})
        => /\ \A i \in MissingAges : CleanCell("age", i) = Num(AgeMedian)
           /\ \A i \in ParseableAges : CleanCell("age", i) = Num(AgeValue(i))
           /\ ret.filled = Cardinality(MissingAges)

\* C3 as amended: when clean_data returns a table for a raw age column with
\* M >= 1 unparseable or missing values, N >= 1 values are parseable, each
\* of the M places holds the median of exactly the N parseable ages
\* truncated to an integer, each parseable age is kept truncated to an
\* integer, and clean_data reports M and the untruncated median.
C3_MedianTruncated ==
    (CleanReturned /\ MissingAges # {})
        => /\ ParseableAges # {}
           /\ \A i \in MissingAges : CleanCell("age", i) = Num(Trunc(AgeMedian))
           /\ \A i \in ParseableAges : CleanCell("age", i) = Num(Trunc(AgeValue(i)))
           /\ ret.filled = Cardinality(MissingAges)
           /\ ret.median = Num(AgeMedian)

C3_Witness ==
    /\ CleanReturned
    /\ MissingAges # {}
    /\ Cardinality(ParseableAges) >= 2
    /\ AgeMedian % 4 # 0
    /\ \E i \in MissingAges : RawText("age")[i] = "abc"

\* The smoker entries of the CSV text other than the sentinel "?" (and other
\* than an empty field), and their mode when exactly one value is most frequent.
KnownSmokers == {i \in RawIndex : RawText("smoker")[i] \notin {"?", ""}}

SmokerCount(t) == Cardinality({i \in KnownSmokers : RawText("smoker")[i] = t})

KnownSmokerModes ==
    {t \in {RawText("smoker")[i] : i \in KnownSmokers} :
        \A u \in {RawText("smoker")[i] : i \in KnownSmokers} :
            SmokerCount(u) <= SmokerCount(t)}

ExpectedSmokerFill ==
    IF Cardinality(KnownSmokerModes) = 1
    THEN CHOOSE t \in KnownSmokerModes : TRUE
    ELSE "0"

\* C4: clean_data replaces each "?" of the smoker column with the mode of the
\* entries that are not "?", with 0 only when that mode is not unique, and
\* keeps every other entry.
C4_SmokerMode ==
    CleanReturned
        => \A i \in RawIndex :
              IF RawText("smoker")[i] = "?"
              THEN CleanCell("smoker", i) = Num(NumLit[ExpectedSmokerFill])
              ELSE CleanCell("smoker", i) = Num(NumLit[RawText("smoker")[i]])

NoMissing(t) ==
    \A c \in NameSet(t.columns) : \A i \in 1..NRows(t) : ~IsNaN(t.data[c][i])

\* C5: a table clean_data returns has no missing value in any column.
C5_NoMissing == CleanReturned => NoMissing(heap[df_clean])

\* C6: in a table clean_data returns every categorical code is in its domain
\* (sex in {1,2}, smoker in {0,1}, region in {1,2,3,4}), so every row of the
\* labeled table derived from it has its three labels.
C6_CodesInDomain ==
    CleanReturned
        => /\ \A i \in RawIndex :
                /\ CleanCell("sex", i) \in {Num(Whole(1)), Num(Whole(2))}
                /\ CleanCell("smoker", i) \in {Num(Whole(0)), Num(Whole(1))}
                /\ CleanCell("region", i) \in {Num(Whole(n)) : n \in 1..4}
           /\ LET labeled == LabelRun(heap[df_clean])
              IN  \A c \in {"sex_label", "smoker_label", "region_label"} :
                      \A i \in RawIndex : ~IsNaN(labeled.data[c][i])

\* the columns clean_data casts without any imputation
AssumedClean == {"sex", "children", "region"}

DirtyColumns == {c \in AssumedClean : \E i \in RawIndex : NonNumeric(RawText(c)[i])}

\* C7: clean_data on a raw table whose sex, children or region column holds
\* non-numeric content fails (it raises ValueError, the code's form of
\* DataQualityError, and returns no table); the column is not imputed.
C7_DataQuality ==
    (CleanRan /\ DirtyColumns # {})
        => /\ ret.raised = "ValueError"
           /\ ret.returned = ""
           /\ \A c \in DirtyColumns :
                 \A i \in RawIndex :
                     NonNumeric(RawText(c)[i]) => CleanCell(c, i) = Str(RawText(c)[i])

C7_Witness ==
    /\ CleanRan
    /\ DirtyColumns = {"region"}
    /\ ret.raised = "ValueError"
    /\ \A i \in RawIndex : RawText("smoker")[i] \in DOMAIN NumLit

\* C8: clean_data never modifies the raw table: after any call, successful
\* or not, the raw table is what read_csv made of the file.
C8_RawUntouched ==
    (ret.op = "clean_data" /\ df_raw # "None") => heap[df_raw] = ReadCsv(remote)

C8_Witness ==
    /\ CleanReturned
    /\ heap[df_clean] # heap[df_raw]
    /\ heap[df_raw] = ReadCsv(remote)

\* C21 as stated: a clean_data that raises leaves the loader's clean
\* table as it was before the call: the same reference (None on a loader
\* never cleaned) and, if there was a table, the same content.
C21_FailedCleanKeepsTable ==
    [][ret'.op = "clean_data" /\ ret'.raised # ""
          => /\ df_clean' = df_clean
             /\ df_clean # "None" => heap'[df_clean] = heap[df_clean]]_vars

-----------------------------------------------------------------------------
(* Properties of the analyzer, checked under SpecAnalyzer. *)

\* the clean table of the analyzer and the table it uses for labels
AnalyzerClean == heap[an_df_clean]

AnalyzerLabels == heap[an_df_labeled]

\* C9: correlation_analysis on a clean table without a charges column fails
\* with KeyError (the missing-column error), and the bundle of such an
\* analyzer never holds a correlation entry.
C9_MissingCharges ==
    ~HasColumn(AnalyzerClean, "charges")
        => /\ ~Has(analysis_results, "correlation")
           /\ ret.op = "correlation_analysis" => ret.raised = "KeyError"

\* C9, witness: correlation_analysis has failed on a table without charges
\* while the bundle already holds the basic statistics.
C9_Witness ==
    /\ ret.op = "correlation_analysis"
    /\ ret.raised = "KeyError"
    /\ ~HasColumn(AnalyzerClean, "charges")
    /\ Has(analysis_results, "basic_stats")
    /\ ~Has(analysis_results, "correlation")

\* the call that has just returned wrote the entry of dimension d
WroteGroup(d) ==
    /\ ret.op = "group_analysis" /\ ret.raised = ""
    /\ Has(analysis_results, "groups")
    /\ Get(analysis_results, "groups")[d] # <<>>

WroteTest(d) ==
    /\ ret.op = "statistical_tests" /\ ret.raised = ""
    /\ Has(analysis_results, "statistical_tests")
    /\ Get(analysis_results, "statistical_tests")[TestOf(d)] # <<>>

\* C10: on tables that have a charges column, group_analysis writes
\* groups[d] and statistical_tests writes the test of d if and only if the
\* table used for labels has the column d_label; and an analyzer built
\* without a labeled table completes every phase, with only 'children' in
\* groups, no test entries, no smoking_impact and no significant factors.
C10_SoftSkip ==
    HasColumn(AnalyzerClean, "charges") /\ HasColumn(AnalyzerLabels, "charges")
        => /\ \A d \in NameSet(Dimensions) :
                 /\ ret.op = "group_analysis"
                        => (WroteGroup(d) <=> HasColumn(AnalyzerLabels, LabelOf(d)))
                 /\ ret.op = "statistical_tests"
                        => (WroteTest(d) <=> HasColumn(AnalyzerLabels, LabelOf(d)))
           /\ an_df_labeled = an_df_clean
                 => /\ ret.raised = ""
                    /\ Has(analysis_results, "groups")
                          => \A d \in NameSet(Dimensions) :
                                 Get(analysis_results, "groups")[d] = <<>>
                    /\ Has(analysis_results, "statistical_tests")
                          => \A t \in NameSet(TestNames) :
                                 Get(analysis_results, "statistical_tests")[t] = <<>>
                    /\ Has(analysis_results, "insights")
                          => /\ Get(analysis_results, "insights").smoking_impact = <<>>
                             /\ Get(analysis_results, "insights").significant_factors
                                    \in {<<>>, << <<>> >>}

\* the keys of the bundle, in the order of the phases
BundleKeys == <<"basic_stats", "correlation", "groups", "statistical_tests", "insights">>

\* C11: the bundle of a newly constructed analyzer is empty; the keys
\* run_full_analysis assigns are basic_stats, correlation, groups,
\* statistical_tests, insights in this order (a run that raises has assigned
\* the keys of the phases before the failing one), each is in the bundle, and
\* when the run returns all five have been assigned.
C11_PhaseOrder ==
    /\ ret.op = "__init__" => analysis_results = EmptyBundle
    /\ ret.op = "run_full_analysis"
          => /\ writes = SubSeq(BundleKeys, 1, Len(writes))
             /\ \A i \in 1..Len(writes) : Has(analysis_results, writes[i])
             /\ ret.raised = "" => writes = BundleKeys

\* C11, witness: run_full_analysis has returned on an analyzer with all three
\* label columns, having assigned the five keys.
C11_Witness ==
    /\ ret.op = "run_full_analysis"
    /\ ret.raised = ""
    /\ writes = BundleKeys
    /\ \A k \in NameSet(BundleKeys) : Has(analysis_results, k)
    /\ \A d \in NameSet(Dimensions) : HasColumn(AnalyzerLabels, LabelOf(d))

\* C12 as stated: in every step, each key present keeps its value.
C12_AppendOnly ==
    [][\A k \in NameSet(BundleKeys) :
          Has(analysis_results, k) => analysis_results'[k] = analysis_results[k]]_vars

\* C12, amended: in every step each key present stays present; the values of
\* basic_stats, correlation, groups and statistical_tests never change; the
\* value of insights changes only when generate_insights or run_full_analysis
\* assigns it anew.
C12_KeysKept ==
    [][\A k \in NameSet(BundleKeys) :
          Has(analysis_results, k)
              => /\ Has(analysis_results', k)
                 /\ k # "insights" => analysis_results'[k] = analysis_results[k]
                 /\ analysis_results'[k] # analysis_results[k]
                        => /\ ret'.op \in {"generate_insights", "run_full_analysis"}
                           /\ "insights" \in NameSet(writes')]_vars

\* C12, witness: run_full_analysis has returned twice in a row, so that the
\* second run assigned five keys that were all present.
C12_Witness ==
    /\ rerun
    /\ ret.op = "run_full_analysis"
    /\ ret.raised = ""
    /\ \A k \in NameSet(BundleKeys) : Has(analysis_results, k)

\* |a| < |b| for two coefficients, NaN counting as below every number
Weaker(a, b) ==
    \/ a.nan /\ ~b.nan
    \/ ~a.nan /\ ~b.nan /\ a.num * b.den < b.num * a.den

\* the columns of the clean table other than charges, in column order
Predictors == Without(AnalyzerClean.columns, "charges")

C14_SignedCorrelation ==
    Has(analysis_results, "correlation")
        => LET e == Get(analysis_results, "correlation")
           IN  e.strongest_correlation = e.matrix[e.strongest_predictor]

\* the label the thresholds give to a coefficient r that is not NaN:
\* |r| >= 0.7, 0.5, 0.3 as r^2 >= 0.49, 0.25, 0.09
Band(r) ==
    IF 100 * r.num >= 49 * r.den THEN "Strong"
    ELSE IF 100 * r.num >= 25 * r.den THEN "Moderate"
    ELSE IF 100 * r.num >= 9 * r.den THEN "Weak"
    ELSE "Very weak"

\* -r
Negated(r) == [r EXCEPT !.sign = -r.sign]

\* coefficients at, just below and just above each threshold: r^2 in hundredths
AroundThresholds ==
    {[nan |-> FALSE, sign |-> 1, num |-> n, den |-> 100] :
        n \in {0, 8, 9, 10, 24, 25, 26, 48, 49, 50, 100}}

\* C15: the interpretation written with the correlation insight is the label
\* the thresholds give to its correlation value; and for every coefficient r
\* of the correlation entry, _interpret_correlation gives r and -r the label
\* the thresholds give to |r|, as it does for coefficients at and around
\* 0.3, 0.5 and 0.7.
C15_StrengthLabel ==
    /\ Has(analysis_results, "insights")
       /\ Get(analysis_results, "insights").correlations # <<>>
          => LET c == Get(analysis_results, "insights").correlations[1]
             IN  ~c.correlation_value.nan
                    => c.interpretation = Band(c.correlation_value)
    /\ Has(analysis_results, "correlation")
          => \A c \in NameSet(AnalyzerClean.columns) :
                 LET r == Get(analysis_results, "correlation").matrix[c]
                 IN  ~r.nan => /\ InterpretCorrelation(r) = Band(r)
                               /\ InterpretCorrelation(Negated(r)) = Band(r)
    /\ \A r \in AroundThresholds :
           /\ InterpretCorrelation(r) = Band(r)
           /\ InterpretCorrelation(Negated(r)) = Band(r)

\* C15, witness: generate_insights has labelled "Strong" the correlation of a
\* predictor whose coefficient with charges is negative.
C15_Witness ==
    /\ ret.op = "generate_insights"
    /\ Has(analysis_results, "correlation")
    /\ Get(analysis_results, "insights").correlations # <<>>
    /\ Get(analysis_results, "insights").correlations[1].interpretation = "Strong"
    /\ LET e == Get(analysis_results, "correlation")
       IN  e.matrix[e.strongest_predictor].sign = -1

\* generate_insights has just written the insights: alone, or as the last
\* phase of a run that returned
InsightsFresh ==
    \/ ret.op = "generate_insights"
    \/ ret.op = "run_full_analysis" /\ ret.raised = ""

\* the smoker statistics the insights are derived from: <<>> when the bundle
\* has no groups entry or the entry has no smoker table
SmokerStats ==
    IF Has(analysis_results, "groups")
    THEN Get(analysis_results, "groups").smoker
    ELSE <<>>

\* C16: generate_insights writes smoking_impact exactly when the groups entry
\* has a smoker table of at least two groups; then high_group and low_group
\* are groups with the largest and the smallest mean (of the means that are
\* numbers), multiplier is the quotient and difference the difference of
\* those two means.
C16_SmokingImpact ==
    InsightsFresh
        => LET ins == Get(analysis_results, "insights")
               written == SmokerStats # <<>> /\ Cardinality(DOMAIN SmokerStats[1]) >= 2
           IN  /\ ins.smoking_impact # <<>> <=> written
               /\ written
                  => LET g == SmokerStats[1]
                         m == ins.smoking_impact[1]
                     IN  \E hi, lo \in HasMean(g) :
                             /\ m.high_group = hi.s
                             /\ m.low_group = lo.s
                             /\ \A k \in HasMean(g) :
                                    /\ g[k].sum * g[hi].count <= g[hi].sum * g[k].count
                                    /\ g[lo].sum * g[k].count <= g[k].sum * g[lo].count
                             /\ m.multiplier.den # 0
                             /\ m.multiplier.num * g[lo].sum * g[hi].count
                                    = m.multiplier.den * g[hi].sum * g[lo].count
                             /\ m.difference.den # 0
                             /\ m.difference.num * g[hi].count * g[lo].count
                                    = m.difference.den
                                        * (g[hi].sum * g[lo].count - g[lo].sum * g[hi].count)

\* C16, witness: generate_insights has written the smoking impact of a table
\* whose smokers have four times the mean charges of the others: multiplier
\* 4, high_group "yes", low_group "no".
C16_Witness ==
    /\ ret.op = "generate_insights"
    /\ Get(analysis_results, "insights").smoking_impact # <<>>
    /\ LET m == Get(analysis_results, "insights").smoking_impact[1]
       IN  /\ m.multiplier = [num |-> 4, den |-> 1]
           /\ m.high_group = "yes"
           /\ m.low_group = "no"

\* the significant_factors list of the insights (<<>> when the key is absent)
Factors ==
    LET ins == Get(analysis_results, "insights")
    IN  IF ins.significant_factors = <<>> THEN <<>> ELSE ins.significant_factors[1]

\* C17: after generate_insights, significant_factors holds the short name of
\* a dimension exactly when the statistical_tests entry has that dimension's
\* test and its significant flag is true; no name occurs twice; the list is
\* written exactly when the bundle has a statistical_tests entry.
C17_SignificantFactors ==
    InsightsFresh
        => /\ Get(analysis_results, "insights").significant_factors # <<>>
                 <=> Has(analysis_results, "statistical_tests")
           /\ \A i \in 1..Len(Factors) : Factors[i] \in NameSet(Dimensions)
           /\ \A d \in NameSet(Dimensions) :
                  (\E i \in 1..Len(Factors) : Factors[i] = d)
                      <=> /\ Has(analysis_results, "statistical_tests")
                          /\ Get(analysis_results, "statistical_tests")[TestOf(d)] # <<>>
                          /\ Get(analysis_results, "statistical_tests")[TestOf(d)][1].significant
           /\ \A i, j \in 1..Len(Factors) : Factors[i] = Factors[j] => i = j

\* C17, witness: generate_insights has listed smoker and region as
\* significant and left out sex, whose test is present and not significant.
C17_Witness ==
    /\ ret.op = "generate_insights"
    /\ Has(analysis_results, "statistical_tests")
    /\ Factors = <<"smoker", "region">>
    /\ Get(analysis_results, "statistical_tests").sex_ttest # <<>>
    /\ ~Get(analysis_results, "statistical_tests").sex_ttest[1].significant

\* the sum of the count fields of the group table g over the keys ks
RECURSIVE CountSum(_, _)
CountSum(g, ks) ==
    IF ks = {} THEN 0
    ELSE LET k == CHOOSE x \in ks : TRUE
         IN  g[k].count + CountSum(g, ks \ {k})

\* the children aggregate of the groups entry
ChildrenStats == Get(analysis_results, "groups").children[1]

\* the children values of the clean table
ChildrenValues ==
    {Col(AnalyzerClean, "children")[i] : i \in 1..NRows(AnalyzerClean)}

\* C18 as stated: once group_analysis has written the groups entry, the
\* children aggregate has one row per distinct children value of the clean
\* table and the count fields sum to the number of rows of the table.
C18_ChildrenCounts ==
    Has(analysis_results, "groups")
        => /\ DOMAIN ChildrenStats = ChildrenValues
           /\ CountSum(ChildrenStats, DOMAIN ChildrenStats) = NRows(AnalyzerClean)

\* the p-value outcomes the tests have shown so far, as an oracle
SeenOutcomes == [t \in NameSet(TestNames) |-> p_below_alpha[t] = "yes"]

StageOrder ==
    <<"download", "load", "clean", "label", "analyze", "export", "visualize",
      "report">>

\* the last call failed: it raised, download_data returned False, or
\* load_data or clean_data returned None
CallFailed ==
    \/ ret.raised # ""
    \/ ret.op = "download_data" /\ ret.returned = "False"
    \/ ret.op \in {"load_data", "clean_data"} /\ ret.returned = "None"

\* C20: the stages main has executed are always the first ones of download,
\* load, clean, label, analyze, export, visualize, report, in that order;
\* when a call has failed main has returned False; main has returned True
\* only with all eight stages executed and the last call completed; and once
\* main has returned no stage is executed.
C20_PipelineOrder ==
    /\ [](pc # "idle"
            => /\ stages = SubSeq(StageOrder, 1, Len(stages))
               /\ CallFailed => pc = "done" /\ main_ret = "False"
               /\ main_ret = "True" => stages = StageOrder /\ ~CallFailed
               /\ main_ret # "" <=> pc = "done")
    /\ [][main_ret # "" => stages' = stages /\ main_ret' = main_ret]_vars

\* C20, witness: main has returned False after run_full_analysis raised (a
\* data set with a single region), with the stages download to analyze
\* executed and none after.
C20_Witness ==
    /\ main_ret = "False"
    /\ ret.op = "run_full_analysis"
    /\ ret.raised = "TypeError"
    /\ stages = <<"download", "load", "clean", "label", "analyze">>

\* the entries generate_insights reads
EarlierKeys == {"correlation", "groups", "statistical_tests"}

\* C22: a call of generate_insights returns whatever earlier entries the
\* bundle has; the insights it writes contain correlations exactly when the
\* correlation entry is present, significant_factors exactly when the
\* statistical_tests entry is present, and smoking_impact only when the
\* groups entry is present; every other entry of the bundle is left as it
\* was.
C22_InsightsFromAnySubset ==
    [][ret'.op = "generate_insights"
          => /\ ret'.raised = ""
             /\ Has(analysis_results', "insights")
             /\ LET ins == Get(analysis_results', "insights")
                IN  /\ ins.correlations # <<>> <=> Has(analysis_results, "correlation")
                    /\ ins.significant_factors # <<>>
                           <=> Has(analysis_results, "statistical_tests")
                    /\ ins.smoking_impact # <<>> => Has(analysis_results, "groups")
             /\ \A k \in NameSet(BundleKeys) \ {"insights"} :
                    analysis_results'[k] = analysis_results[k]]_vars

\* C22, witness: generate_insights has returned on a bundle that has a
\* groups entry and neither a correlation nor a statistical_tests entry,
\* and has written the smoking impact alone.
C22_Witness ==
    /\ ret.op = "generate_insights"
    /\ ret.raised = ""
    /\ {k \in EarlierKeys : Has(analysis_results, k)} = {"groups"}
    /\ Get(analysis_results, "insights").smoking_impact # <<>>
    /\ Get(analysis_results, "insights").correlations = <<>>
    /\ Get(analysis_results, "insights").significant_factors = <<>>

====
